---------------------------- MODULE Spec2Model ----------------------------
(***************************************************************************)
(* vlmultiselect: a query-federation gateway.  One inbound request is      *)
(* forwarded to every configured endpoint by one goroutine per endpoint    *)
(* (getEndpointData), the answers are merged (mergeData) and the merged    *)
(* payload is written by the handler (makeJSONHandler).                    *)
(*                                                                         *)
(* Byte strings are sequences of runs [c, n] (n copies of the byte c), so  *)
(* that a line as long as the scanner's buffer can be written down.  JSON  *)
(* texts are given by their syntax tree; a text that is not JSON at all is *)
(* the tree JInvalid.                                                      *)
(***************************************************************************)
EXTENDS Integers, Sequences, FiniteSets, TLC

(***************************************************************************)
(* Bounds of the model.                                                    *)
(***************************************************************************)
MaxEndpoints == 2      \* endpoints of one dispatch
MaxShards == 2         \* JSON payloads handed to mergeData when it is called directly
MaxNDShards == 3       \* NDJSON payloads handed to mergeData when it is called directly
MaxLen == 3            \* runs in the NDJSON payloads of one call, together
MaxItems == 2          \* entries of one "values" array
MaxEntries == 2        \* comma-separated entries of the -tenants and -storageNode flags

(***************************************************************************)
(* Enumerations of main.go.                                                *)
(***************************************************************************)
Merge == 0
Sum == 1
JSON == 0
NDJSON == 1

Route(p, f, m) == [Path |-> p, Format |-> f, MergeStrategy |-> m]

routes ==
  << Route("/select/logsql/query", NDJSON, Merge),
     Route("/select/logsql/hits", JSON, Merge),
     Route("/select/logsql/field_names", JSON, Sum),
     Route("/select/logsql/field_values", JSON, Sum),
     Route("/select/logsql/facets", JSON, Merge),
     Route("/select/logsql/stats_query", JSON, Merge),
     Route("/select/logsql/stats_query_range", JSON, Merge),
     Route("/select/logsql/stream_ids", JSON, Merge),
     Route("/select/logsql/streams", JSON, Merge),
     Route("/select/logsql/stream_field_names", JSON, Merge),
     Route("/select/logsql/stream_field_values", JSON, Merge) >>

Range(s) == {s[i] : i \in DOMAIN s}

SeqsUpTo(S, lo, hi) == UNION {[1..n -> S] : n \in lo..hi}

\* every enumeration of the finite set S, as a sequence without repetition
Perms(S) ==
  {s \in [1..Cardinality(S) -> S] : \A i, j \in DOMAIN s : i # j => s[i] # s[j]}

(***************************************************************************)
(* A []byte value: the nil slice, or a byte string / JSON text.            *)
(***************************************************************************)
NilSlice == [nil |-> TRUE]
Bytes(b) == [nil |-> FALSE, b |-> b]

(***************************************************************************)
(* Byte strings as runs.                                                   *)
(***************************************************************************)
Run(c, n) == [c |-> c, n |-> n]
NL == Run("\n", 1)
CR == Run("\r", 1)

RECURSIVE ByteLen(_)
ByteLen(b) == IF b = <<>> THEN 0 ELSE Head(b).n + ByteLen(Tail(b))

\* bytes.IndexByte(data[from:], '\n'): the first newline at or after from, 0 if none
RECURSIVE IndexNL(_, _)
IndexNL(b, from) ==
  IF from > Len(b) THEN 0
  ELSE IF b[from] = NL THEN from
  ELSE IndexNL(b, from + 1)

\* bufio.dropCR: one trailing carriage return is removed from a line; the
\* variant removes them all
RECURSIVE dropEveryCR(_)
dropEveryCR(line) ==
  IF line # <<>> /\ line[Len(line)].c = "\r"
    THEN dropEveryCR(SubSeq(line, 1, Len(line) - 1))
    ELSE line

dropCR(line) ==
  IF line # <<>> /\ line[Len(line)].c = "\r"
    THEN IF line[Len(line)].n = 1
           THEN SubSeq(line, 1, Len(line) - 1)
           ELSE [line EXCEPT ![Len(line)].n = @ - 1]
    ELSE line

\* bufio.MaxScanTokenSize, the buffer limit of bufio.NewScanner
MaxScanTokenSize == 65536

(***************************************************************************)
(* The tokens that successive scanner.Scan() calls yield for the bytes of  *)
(* b from offset start on (bufio.ScanLines).  A line that does not fit the *)
(* buffer makes Scan return false (ErrTooLong); the loop of mergeData ends *)
(* there and scanner.Err() is never looked at.                             *)
(***************************************************************************)
RECURSIVE ScanFrom(_, _)
ScanFrom(b, start) ==
  IF start > Len(b) THEN <<>>
  ELSE LET j == IndexNL(b, start)
           line == IF j = 0 THEN SubSeq(b, start, Len(b))
                            ELSE SubSeq(b, start, j - 1)
       IN IF ByteLen(line) >= MaxScanTokenSize THEN <<>>
          ELSE <<dropCR(line)>> \o (IF j = 0 THEN <<>> ELSE ScanFrom(b, j + 1))

\* a scanner wrapped around the bytes of one shard
Scanner(slot) == ScanFrom(IF slot.nil THEN <<>> ELSE slot.b, 1)

\* merged.Write(scanner.Bytes()); merged.WriteByte('\n') for every token; the
\* variant writes the newline first
RECURSIVE WriteLinesNewlineFirst(_)
WriteLinesNewlineFirst(tokens) ==
  IF tokens = <<>> THEN <<>>
  ELSE <<NL>> \o Head(tokens) \o WriteLinesNewlineFirst(Tail(tokens))

RECURSIVE WriteLines(_)
WriteLines(tokens) ==
  IF tokens = <<>> THEN <<>>
  ELSE Head(tokens) \o <<NL>> \o WriteLines(Tail(tokens))

RECURSIVE mergeNDJSON(_)
mergeNDJSON(data) ==
  IF data = <<>> THEN <<>>
  ELSE WriteLines(Scanner(Head(data))) \o mergeNDJSON(Tail(data))

(***************************************************************************)
(* JSON texts by their syntax tree.                                        *)
(***************************************************************************)
JInvalid == [t |-> "invalid"]          \* not a JSON text (foo, the empty text)
JNull == [t |-> "null"]
JFrac == [t |-> "fraction"]            \* a number with a fractional part
JStr(s) == [t |-> "string", s |-> s]
JNum(n) == [t |-> "number", n |-> n]
JArr(a) == [t |-> "array", a |-> a]
JObj(m) == [t |-> "object", m |-> m]
EmptyObj == JObj([k \in {} |-> JNull])

Member(o, k) == IF k \in DOMAIN o.m THEN o.m[k] ELSE JNull

(***************************************************************************)
(* json.Unmarshal into the types Item and Payload of mergeAndSumJSON.  A   *)
(* JSON null and an absent member leave the field at its zero value        *)
(* without an error; unknown members are skipped.                          *)
(***************************************************************************)
Item(h, v) == [Hits |-> h, Value |-> v]

UnmarshalItem(e) ==
  IF e.t = "null" THEN [err |-> FALSE, item |-> Item(0, "")]
  ELSE IF e.t # "object" THEN [err |-> TRUE, item |-> Item(0, "")]
  ELSE LET h == Member(e, "hits")
           v == Member(e, "value")
           hOK == h.t \in {"null", "number"}
           vOK == v.t \in {"null", "string"}
       IN [err |-> ~(hOK /\ vOK),
           item |-> Item(IF h.t = "number" THEN h.n ELSE 0,
                         IF v.t = "string" THEN v.s ELSE "")]

Unmarshal(doc) ==
  IF doc.t = "null" THEN [err |-> FALSE, Values |-> <<>>]
  ELSE IF doc.t # "object" THEN [err |-> TRUE, Values |-> <<>>]
  ELSE LET v == Member(doc, "values")
       IN IF v.t = "null" THEN [err |-> FALSE, Values |-> <<>>]
          ELSE IF v.t # "array" THEN [err |-> TRUE, Values |-> <<>>]
          ELSE [err |-> \E i \in DOMAIN v.a : UnmarshalItem(v.a[i]).err,
                Values |-> [i \in DOMAIN v.a |-> UnmarshalItem(v.a[i]).item]]

\* json.Marshal(Payload{Values: ...})
Marshal(values) ==
  JObj("values" :>
       JArr([i \in DOMAIN values |->
               JObj("hits" :> JNum(values[i].Hits) @@
                    "value" :> JStr(values[i].Value))]))

\* mergedMap[item.Value] += item.Hits, for the items in order; the variant
\* has = instead of +=
RECURSIVE AddAllOverwrite(_, _)
AddAllOverwrite(m, items) ==
  IF items = <<>> THEN m
  ELSE LET it == Head(items)
       IN AddAllOverwrite(IF it.Value \in DOMAIN m
                               THEN [m EXCEPT ![it.Value] = it.Hits]
                               ELSE m @@ (it.Value :> it.Hits),
                             Tail(items))

RECURSIVE AddAll(_, _)
AddAll(m, items) ==
  IF items = <<>> THEN m
  ELSE LET it == Head(items)
       IN AddAll(IF it.Value \in DOMAIN m
                   THEN [m EXCEPT ![it.Value] = @ + it.Hits]
                   ELSE m @@ (it.Value :> it.Hits),
                 Tail(items))

EmptyMap == [k \in {} |-> 0]

OK(out) == [ok |-> TRUE, out |-> out]
Err(msg) == [ok |-> FALSE, err |-> msg]

\* the map that mergeAndSumJSON fills from the decoded pa and pb; in the
\* variant the loop over pa.Values is missing
mergedMapOnlyB(pa, pb) == AddAll(EmptyMap, pb.Values)

mergedMap(pa, pb) == AddAll(AddAll(EmptyMap, pa.Values), pb.Values)

(***************************************************************************)
(* mergeAndSumJSON(a, b); ord is the order in which `range mergedMap`      *)
(* visits the keys, which Go leaves unspecified.                           *)
(***************************************************************************)
mergeAndSumJSON(a, b, ord) ==
  LET pa == Unmarshal(a)
      pb == Unmarshal(b)
  IN IF pa.err THEN Err("unmarshal a")
     ELSE IF pb.err THEN Err("unmarshal b")
     ELSE LET m == mergedMap(pa, pb)
          IN OK(Marshal([i \in DOMAIN ord |-> Item(m[ord[i]], ord[i])]))

\* every result mergeAndSumJSON(a, b) can give, over the iteration orders
SumOutcomes(a, b) ==
  LET pa == Unmarshal(a)
      pb == Unmarshal(b)
  IN IF pa.err \/ pb.err
       THEN {mergeAndSumJSON(a, b, <<>>)}
       ELSE {mergeAndSumJSON(a, b, ord) : ord \in Perms(DOMAIN mergedMap(pa, pb))}

(***************************************************************************)
(* jsons.Merge(a, b) of github.com/qjebbs/go-jsons, an external library:   *)
(* the recursive merge of two JSON objects as the specification describes  *)
(* it (union of the keys; a key of both is merged recursively when both    *)
(* values are objects, otherwise the right-hand value wins).               *)
(***************************************************************************)
RECURSIVE DeepMerge(_, _)
DeepMerge(x, y) ==
  IF x.t = "object" /\ y.t = "object"
    THEN JObj([k \in DOMAIN x.m \cup DOMAIN y.m |->
                 IF k \notin DOMAIN y.m THEN x.m[k]
                 ELSE IF k \notin DOMAIN x.m THEN y.m[k]
                 ELSE DeepMerge(x.m[k], y.m[k])])
    ELSE y

jsonsMerge(a, b) ==
  IF a.t = "object" /\ b.t = "object" THEN OK(DeepMerge(a, b))
  ELSE Err("jsons.Merge")

\* the JSON text held by a slice; the nil slice holds no text
TextOf(slot) == IF slot.nil THEN JInvalid ELSE slot.b

\* one iteration of the loop of mergeData for format JSON
MergeStep(acc, b, mergeStrategy) ==
  IF mergeStrategy = Merge THEN {jsonsMerge(acc, TextOf(b))}
  ELSE SumOutcomes(acc, TextOf(b))

\* the loop of mergeData for format JSON, from the accumulator acc on; the
\* variant merges every payload into {} instead of into the accumulator
RECURSIVE FoldJSON(_, _, _)
FoldJSONFromEmpty(acc, data, mergeStrategy) ==
  IF data = <<>> THEN {OK(acc)}
  ELSE UNION { IF r.ok THEN FoldJSON(r.out, Tail(data), mergeStrategy)
                       ELSE {Err("json merge failed")}
               : r \in MergeStep(EmptyObj, Head(data), mergeStrategy) }

FoldJSON(acc, data, mergeStrategy) ==
  IF data = <<>> THEN {OK(acc)}
  ELSE UNION { IF r.ok THEN FoldJSON(r.out, Tail(data), mergeStrategy)
                       ELSE {Err("json merge failed")}
               : r \in MergeStep(acc, Head(data), mergeStrategy) }

(***************************************************************************)
(* mergeData(data, format, mergeStrategy): the set of results the call can *)
(* give (one result, up to the order of a summed "values" array).          *)
(***************************************************************************)
mergeData(data, format, mergeStrategy) ==
  IF format = JSON THEN FoldJSON(EmptyObj, data, mergeStrategy)
  ELSE IF format = NDJSON THEN {OK(mergeNDJSON(data))}
  ELSE {Err("unsupported format")}

(***************************************************************************)
(* Endpoints, inbound requests, outbound requests, shard answers.          *)
(***************************************************************************)
Endpoint(a, p, u) == [AccountID |-> a, ProjectID |-> p, URL |-> u]

\* the last URL does not parse (a space in the host name): http.NewRequest fails
EndpointPool ==
  { Endpoint("1", "p1", "http://node1"),
    Endpoint("2", "p2", "http://node2"),
    Endpoint("1", "p1", "http://no de") }

ValidURL(u) == u # "http://no de"

\* an inbound request: method, raw query, body, and the headers Content-Type,
\* AccountID, ProjectID and Authorization ("" when the header is absent, as
\* Header.Get returns it)
InboundRequest(method, query, ct, body) ==
  [Method |-> method, RawQuery |-> query, ContentType |-> ct, Body |-> body,
   AccountID |-> "", ProjectID |-> "", Authorization |-> ""]

Requests ==
  { InboundRequest("POST", "filter=ok", "application/json", "test payload"),
    InboundRequest("GET", "", "", "") }

\* the headers a client may add: the tenant of another endpoint, a tenant
\* that is not configured, a credential
ClientHeaders ==
  { [AccountID |-> "", ProjectID |-> "", Authorization |-> ""],
    [AccountID |-> "2", ProjectID |-> "p2", Authorization |-> ""],
    [AccountID |-> "9", ProjectID |-> "p9", Authorization |-> "Bearer t"],
    [AccountID |-> "", ProjectID |-> "", Authorization |-> "Bearer t"] }

WithHeaders(r, h) ==
  [r EXCEPT !.AccountID = h.AccountID, !.ProjectID = h.ProjectID,
            !.Authorization = h.Authorization]

ClientRequests == {WithHeaders(r, h) : r \in Requests, h \in ClientHeaders}

NoRequest == [Method |-> "none"]

\* the request a worker builds for endpoint ep (main.go 210-224): the header
\* of http.NewRequest is empty, and the three Set calls fill it.  The first
\* variant forwards the method of the inbound request
NewRequestInboundMethod(ep, path, r, body) ==
  [Method |-> r.Method,
   URL |-> IF r.RawQuery # "" THEN <<ep.URL, path, "?", r.RawQuery>>
                              ELSE <<ep.URL, path>>,
   AccountID |-> ep.AccountID,
   ProjectID |-> ep.ProjectID,
   ContentType |-> r.ContentType,
   Authorization |-> "",
   Body |-> body]

\* the second variant forwards the inbound headers and sets the tenant only
\* where the client sent none
NewRequestForwardHeaders(ep, path, r, body) ==
  [Method |-> "POST",
   URL |-> IF r.RawQuery # "" THEN <<ep.URL, path, "?", r.RawQuery>>
                              ELSE <<ep.URL, path>>,
   AccountID |-> IF r.AccountID # "" THEN r.AccountID ELSE ep.AccountID,
   ProjectID |-> IF r.ProjectID # "" THEN r.ProjectID ELSE ep.ProjectID,
   ContentType |-> r.ContentType,
   Authorization |-> r.Authorization,
   Body |-> body]

NewRequest(ep, path, r, body) ==
  [Method |-> "POST",
   URL |-> IF r.RawQuery # "" THEN <<ep.URL, path, "?", r.RawQuery>>
                              ELSE <<ep.URL, path>>,
   AccountID |-> ep.AccountID,
   ProjectID |-> ep.ProjectID,
   ContentType |-> r.ContentType,
   Authorization |-> "",
   Body |-> body]

NoAnswer == [kind |-> "none"]
TransportFailure == [kind |-> "transport"]
\* complete = FALSE: the connection breaks while the body is read
Response(status, body, complete) ==
  [kind |-> "response", status |-> status, body |-> body, complete |-> complete]

NilErr == [kind |-> "nil"]
NewRequestErr == [kind |-> "newrequest"]
TransportErr == [kind |-> "transport"]
ReadErr == [kind |-> "read"]
ReadBodyErr == [kind |-> "readbody"]
StatusErr(body) == [kind |-> "status", msg |-> body]     \* fmt.Errorf("%s", body)

NoData == [nil |-> TRUE]
Data(list) == [nil |-> FALSE, list |-> list]

(***************************************************************************)
(* Payloads.  A shard may answer with any bytes; the sets below are the    *)
(* ones the model draws from.                                              *)
(***************************************************************************)
ByteA == Run("a", 1)
LongRun == Run("x", MaxScanTokenSize - 1)      \* alone, the longest line that fits
NDAlphabet == {ByteA, NL, CR, LongRun}

\* the lists of n payloads that are the pieces of a byte string of at most
\* MaxLen runs, cut at n - 1 places
NDPayloadLists(n) ==
  { [i \in 1..n |-> SubSeq(b, (IF i = 1 THEN 0 ELSE cut[i - 1]) + 1,
                              IF i = n THEN Len(b) ELSE cut[i])]
      : <<b, cut>> \in
          { <<b, cut>> \in UNION { {q} \X [1..(n - 1) -> 0..Len(q)]
                                     : q \in SeqsUpTo(NDAlphabet, 0, MaxLen) } :
              \A i \in 1..(n - 2) : cut[i] <= cut[i + 1] } }

SumEntry(v, h) == JObj("hits" :> JNum(h) @@ "value" :> JStr(v))
SumEntries == {SumEntry("A", 1), SumEntry("B", 2)}
SumDoc(entries) == JObj("values" :> JArr(entries))
ValidSumDocs == {SumDoc(e) : e \in SeqsUpTo(SumEntries, 0, MaxItems)}

\* texts that are not of the shape {"values":[{"value":string,"hits":integer}]}
MisshapenDocs ==
  { JInvalid,                                              \* foo
    JStr("foo"),                                           \* "foo"
    JNull,                                                 \* null
    JObj("foo" :> JNum(2)),                                \* {"foo":2}
    SumDoc(<<JObj("hits" :> JNum(1))>>),                   \* {"values":[{"hits":1}]}
    SumDoc(<<JObj("hits" :> JFrac @@ "value" :> JStr("A"))>>) }

SumPayloads == ValidSumDocs \cup MisshapenDocs

MergeKeys == {"foo", "bar"}
MergeValues == {JNum(2), JNum(3), JObj("x" :> JNum(1))}
ObjectDocs ==
  UNION { {JObj(m) : m \in [K -> MergeValues]} : K \in SUBSET MergeKeys }
MergePayloads == ObjectDocs \cup {JInvalid}

\* the lists of n payloads mergeData is called with directly
PayloadLists(format, mergeStrategy, n) ==
  IF format = NDJSON THEN NDPayloadLists(n)
  ELSE IF mergeStrategy = Sum THEN [1..n -> SumPayloads]
  ELSE [1..n -> MergePayloads]

\* the bodies the shards of a dispatch answer with
ShardBodies(format, mergeStrategy) ==
  IF format = NDJSON THEN {<<ByteA, NL>>, <<>>}
  ELSE IF mergeStrategy = Sum THEN {SumDoc(<<SumEntry("A", 1)>>), JInvalid}
  ELSE {JObj("foo" :> JNum(2)), JInvalid}

\* answers whose body breaks off while it is read, whatever the status
BrokenAnswers(format, mergeStrategy) ==
  LET b == CHOOSE x \in ShardBodies(format, mergeStrategy) : TRUE
  IN {Response(s, b, FALSE) : s \in {200, 500}}

ShardAnswers(format, mergeStrategy) ==
  {TransportFailure}
  \cup {Response(200, b, TRUE) : b \in ShardBodies(format, mergeStrategy)}
  \cup {Response(s, b, TRUE) : s \in {201, 500}, b \in ShardBodies(format, mergeStrategy)}
  \cup BrokenAnswers(format, mergeStrategy)

(***************************************************************************)
(* parseEndpointsFromFlags (main.go 93-113).  A string is a sequence of    *)
(* atoms: the separators ",", ":" and " ", the prefixes "http://" and      *)
(* "https://", and names that contain none of them.                        *)
(***************************************************************************)
RECURSIVE Split(_, _)
Split(s, sep) ==
  IF \E k \in 1..Len(s) : s[k] = sep
    THEN LET k == CHOOSE j \in 1..Len(s) :
                    s[j] = sep /\ \A l \in 1..(j - 1) : s[l] # sep
         IN <<SubSeq(s, 1, k - 1)>> \o Split(SubSeq(s, k + 1, Len(s)), sep)
    ELSE <<s>>

RECURSIVE TrimSpace(_)
TrimSpace(s) ==
  IF s = <<>> THEN s
  ELSE IF Head(s) = " " THEN TrimSpace(Tail(s))
  ELSE IF s[Len(s)] = " " THEN TrimSpace(SubSeq(s, 1, Len(s) - 1))
  ELSE s

HasPrefix(s, prefix) == s # <<>> /\ Head(s) = prefix

\* main.go 101-103; the variant leaves the entry as it is
storageNodeAsGiven(storageNode) == storageNode

withScheme(storageNode) ==
  IF ~HasPrefix(storageNode, "http://") THEN <<"http://">> \o storageNode
  ELSE storageNode

\* return nil, fmt.Errorf(...) (main.go 98); the variant returns what was
\* appended so far
wrongTenantFormatPartial(endpoints) ==
  [endpoints |-> endpoints, err |-> "wrong tenant format, use <tenantID>:<projectID>"]

wrongTenantFormat(endpoints) ==
  [endpoints |-> <<>>, err |-> "wrong tenant format, use <tenantID>:<projectID>"]

\* the loop over the tenant entries for one storage node (main.go 96-110);
\* storageNode is the loop variable of the outer loop, assigned in the body
RECURSIVE idLoop(_, _, _)
idLoop(idList, storageNode, endpoints) ==
  IF idList = <<>> THEN [endpoints |-> endpoints, err |-> ""]
  ELSE LET parts == Split(TrimSpace(Head(idList)), ":")
       IN IF Len(parts) < 2 THEN wrongTenantFormat(endpoints)
          ELSE LET sn == withScheme(storageNode)
               IN idLoop(Tail(idList), sn,
                         Append(endpoints, Endpoint(parts[1], parts[2], sn)))

\* the loop over the storage nodes (main.go 95-111); in the variant the
\* loops are nested the other way round
RECURSIVE nodesOfTenant(_, _, _)
nodesOfTenant(nodeList, id, endpoints) ==
  IF nodeList = <<>> THEN [endpoints |-> endpoints, err |-> ""]
  ELSE LET parts == Split(TrimSpace(id), ":")
       IN IF Len(parts) < 2 THEN wrongTenantFormat(endpoints)
          ELSE nodesOfTenant(Tail(nodeList), id,
                 Append(endpoints,
                        Endpoint(parts[1], parts[2], withScheme(Head(nodeList)))))

RECURSIVE tenantsOutermost(_, _, _)
tenantsOutermost(nodeList, idList, endpoints) ==
  IF idList = <<>> THEN [endpoints |-> endpoints, err |-> ""]
  ELSE LET r == nodesOfTenant(nodeList, Head(idList), endpoints)
       IN IF r.err # "" THEN r
          ELSE tenantsOutermost(nodeList, Tail(idList), r.endpoints)

nodeLoopInnermost(nodeList, ids, endpoints) ==
  tenantsOutermost(nodeList, Split(ids, ","), endpoints)

RECURSIVE nodeLoop(_, _, _)
nodeLoop(nodeList, ids, endpoints) ==
  IF nodeList = <<>> THEN [endpoints |-> endpoints, err |-> ""]
  ELSE LET r == idLoop(Split(ids, ","), Head(nodeList), endpoints)
       IN IF r.err # "" THEN r ELSE nodeLoop(Tail(nodeList), ids, r.endpoints)

parseEndpointsFromFlags(ids, nodes) == nodeLoop(Split(nodes, ","), ids, <<>>)

\* the flag values the model draws from: entries joined by commas
RECURSIVE Join(_, _)
Join(entries, sep) ==
  IF Len(entries) = 1 THEN Head(entries)
  ELSE Head(entries) \o <<sep>> \o Join(Tail(entries), sep)

TenantEntries ==
  { <<"1", ":", "projA">>,                 \* 1:projA
    <<"2", ":", "projB">>,                 \* 2:projB
    <<" ", "1", ":", "projA", " ">>,       \* surrounded by spaces
    <<":">>,                               \* only the separator
    <<"1projA">>,                          \* no separator
    <<>> }                                 \* empty

NodeEntries ==
  { <<"node1.com">>,
    <<"node2.com">>,
    <<"http://", "node1.com">>,
    <<"https://", "node1.com">>,
    <<>> }

TenantSpecs == {Join(e, ",") : e \in SeqsUpTo(TenantEntries, 1, MaxEntries)}
NodeSpecs == {Join(e, ",") : e \in SeqsUpTo(NodeEntries, 1, MaxEntries)}

(***************************************************************************)
(* State.                                                                  *)
(***************************************************************************)
VARIABLES
  idsFlag,        \* the value of -tenants
  nodesFlag,      \* the value of -storageNode
  parsed,         \* what parseEndpointsFromFlags(idsFlag, nodesFlag) returned
  mux,            \* http.DefaultServeMux: the handler registered for each path
  rnext,          \* main: the index its loop over routes is at; 0 after a panic
  endpoints,      \* the endpoint list the handler was built with
  path,           \* \ 
  format,         \*  > the route the handler was built with
  mergeStrategy,  \* /
  req,            \* the inbound request
  hpc,            \* where the handler's goroutine is
  w,              \* the http.ResponseWriter: Content-Type, status, body written
  body,           \* getEndpointData: the inbound body read into memory
  errs,           \* getEndpointData: errs
  results,        \* getEndpointData: results
  wg,             \* getEndpointData: the counter of the sync.WaitGroup
  next,           \* getEndpointData: the index the range loop is at
  wpc,            \* per goroutine: "none", "start", "sent", "done"
  wargs,          \* per goroutine: the arguments (i, ep) it was started with
  wreq,           \* per goroutine: the request it sent
  wresp,          \* per goroutine: the answer it got
  calls,          \* per goroutine: the number of its calls of http.DefaultClient.Do
  doneOrder,      \* the goroutines in the order they finished
  data,           \* handler: data of data, err := getEndpointData(...)
  err,            \* handler: err of data, err := getEndpointData(...)
  merged,         \* handler: the result of mergeData
  mergeCalls,     \* the number of calls of mergeData
  peer            \* a second request in flight: the activation of its handler

vars == <<idsFlag, nodesFlag, parsed, mux, rnext, endpoints, path, format, mergeStrategy, req, hpc, w, body, errs,
          results, wg, next, wpc, wargs, wreq, wresp, calls, doneOrder, data, err,
          merged, mergeCalls, peer>>

flagVars == <<idsFlag, nodesFlag, parsed>>
muxVars == <<mux, rnext>>
routeVars == <<flagVars, muxVars, endpoints, path, format, mergeStrategy, req, peer>>
gedVars == <<body, errs, results, wg, next>>
workerVars == <<wpc, wargs, wreq, wresp, calls, doneOrder>>
handlerVars == <<data, err, merged, mergeCalls>>

N == Len(endpoints)
NotMerged == [ok |-> FALSE, err |-> "mergeData not called"]
NoResponse == [ctype |-> "", status |-> 0, body |-> <<>>]
NotParsed == [called |-> FALSE]
NoPeer == [hpc |-> "none"]

\* the handler is built from an endpoint list, as the tests build it; the
\* flags are not involved
NoFlags ==
  /\ idsFlag = <<>>
  /\ nodesFlag = <<>>
  /\ parsed = NotParsed

\* ... and is called directly, not through a ServeMux
EmptyMux == [p \in {} |-> {}]
NoMux ==
  /\ mux = EmptyMux
  /\ rnext = 1

\* the handlers the model follows: one route of each format and strategy
\* (the other eight differ from routes[2] in the path only)
HandlerRoutes == {routes[1], routes[2], routes[3]}

Init ==
  /\ NoFlags
  /\ NoMux
  /\ \E n \in 1..MaxEndpoints : endpoints \in [1..n -> EndpointPool]
  /\ \E r \in HandlerRoutes :
       /\ path = r.Path
       /\ format = r.Format
       /\ mergeStrategy = r.MergeStrategy
  /\ req \in Requests
  /\ hpc = "idle"
  /\ w = NoResponse
  /\ body = NilSlice
  /\ errs = <<>>
  /\ results = <<>>
  /\ wg = 0
  /\ next = 1
  /\ wpc = [g \in 1..N |-> "none"]
  /\ wargs = [g \in 1..N |-> [i |-> 0]]
  /\ wreq = [g \in 1..N |-> NoRequest]
  /\ wresp = [g \in 1..N |-> NoAnswer]
  /\ calls = [g \in 1..N |-> 0]
  /\ doneOrder = <<>>
  /\ data = NoData
  /\ err = NilErr
  /\ merged = NotMerged
  /\ mergeCalls = 0
  /\ peer = NoPeer

(***************************************************************************)
(* makeJSONHandler, up to the call of getEndpointData (main.go 159-168).   *)
(***************************************************************************)
\* the variant sets application/json for every format
HandlerStartAlwaysJSON ==
  /\ hpc = "idle"
  /\ w' = [w EXCEPT !.ctype = "application/json"]
  /\ hpc' = "ged"
  /\ UNCHANGED <<routeVars, gedVars, workerVars, handlerVars>>

HandlerStart ==
  /\ hpc = "idle"
  /\ w' = [w EXCEPT !.ctype = IF format = JSON THEN "application/json"
                                               ELSE "application/x-ndjson"]
  /\ hpc' = "ged"
  /\ UNCHANGED <<routeVars, gedVars, workerVars, handlerVars>>

(***************************************************************************)
(* getEndpointData: io.ReadAll(r.Body) and the two make() (main.go         *)
(* 186-203).  A failed read returns at once.                               *)
(***************************************************************************)
\* the variant goes on with what it has when the read fails
ReadBodyIgnoreError ==
  /\ hpc = "ged"
  /\ \E ok \in BOOLEAN :
       /\ body' = Bytes(IF ok THEN req.Body ELSE "")
       /\ errs' = [i \in 1..N |-> NilErr]
       /\ results' = [i \in 1..N |-> NilSlice]
       /\ next' = 1
       /\ hpc' = IF N = 0 THEN "wait" ELSE "loop"
       /\ UNCHANGED <<data, err>>
  /\ UNCHANGED <<routeVars, w, wg, workerVars, merged, mergeCalls>>

ReadBody ==
  /\ hpc = "ged"
  /\ \E ok \in BOOLEAN :
       IF ok
         THEN /\ body' = Bytes(req.Body)
              /\ errs' = [i \in 1..N |-> NilErr]
              /\ results' = [i \in 1..N |-> NilSlice]
              /\ next' = 1
              /\ hpc' = IF N = 0 THEN "wait" ELSE "loop"
              /\ UNCHANGED <<data, err>>
         ELSE /\ data' = NoData
              /\ err' = ReadBodyErr
              /\ hpc' = "returned"
              /\ UNCHANGED <<body, errs, results, next>>
  /\ UNCHANGED <<routeVars, w, wg, workerVars, merged, mergeCalls>>

\* the arguments of the go statement, evaluated when it runs: (i, endpoint);
\* the variant is a closure over the loop variables as they are after the loop
GoArgsLoopVar(i) == [i |-> N, ep |-> endpoints[N]]

GoArgs(i) == [i |-> i, ep |-> endpoints[i]]

\* one iteration of the range loop: wg.Add(1); go func(i, ep){...}(i, endpoint)
Spawn ==
  /\ hpc = "loop"
  /\ wg' = wg + 1
  /\ wpc' = [wpc EXCEPT ![next] = "start"]
  /\ wargs' = [wargs EXCEPT ![next] = GoArgs(next)]
  /\ next' = next + 1
  /\ hpc' = IF next = N THEN "wait" ELSE "loop"
  /\ UNCHANGED <<routeVars, w, body, errs, results, wreq, wresp, calls,
                 doneOrder, handlerVars>>

\* the deferred wg.Done() of goroutine g; in the variant the goroutine
\* returns without it
DoneForgotten(g) ==
  /\ wpc' = [wpc EXCEPT ![g] = "done"]
  /\ wg' = wg
  /\ doneOrder' = Append(doneOrder, g)

Done(g) ==
  /\ wpc' = [wpc EXCEPT ![g] = "done"]
  /\ wg' = wg - 1
  /\ doneOrder' = Append(doneOrder, g)

(***************************************************************************)
(* A goroutine builds its request and hands it to http.DefaultClient.Do    *)
(* (main.go 210-226); http.NewRequest fails on a URL that does not parse.  *)
(***************************************************************************)
\* the variant gives up when another goroutine has already recorded an error
WorkerSendUnlessFailed(g) ==
  /\ wpc[g] = "start"
  /\ IF ValidURL(wargs[g].ep.URL) /\ \A j \in 1..N : errs[j] = NilErr
       THEN /\ wreq' = [wreq EXCEPT ![g] = NewRequest(wargs[g].ep, path, req, body.b)]
            /\ calls' = [calls EXCEPT ![g] = @ + 1]
            /\ wpc' = [wpc EXCEPT ![g] = "sent"]
            /\ UNCHANGED <<errs, wg, doneOrder>>
       ELSE /\ errs' = [errs EXCEPT ![wargs[g].i] = NewRequestErr]
            /\ Done(g)
            /\ UNCHANGED <<wreq, calls>>
  /\ UNCHANGED <<routeVars, hpc, w, body, results, next, wargs, wresp, handlerVars>>

WorkerSend(g) ==
  /\ wpc[g] = "start"
  /\ IF ValidURL(wargs[g].ep.URL)
       THEN /\ wreq' = [wreq EXCEPT ![g] = NewRequest(wargs[g].ep, path, req, body.b)]
            /\ calls' = [calls EXCEPT ![g] = @ + 1]
            /\ wpc' = [wpc EXCEPT ![g] = "sent"]
            /\ UNCHANGED <<errs, wg, doneOrder>>
       ELSE /\ errs' = [errs EXCEPT ![wargs[g].i] = NewRequestErr]
            /\ Done(g)
            /\ UNCHANGED <<wreq, calls>>
  /\ UNCHANGED <<routeVars, hpc, w, body, results, next, wargs, wresp, handlerVars>>

\* what a goroutine makes of the answer a (main.go 226-250); the variants
\* take every 2xx status for a success, report a status other than 200
\* without the body, and keep the body of a failed answer
WorkerOutcomeAny2xx(a) ==
  IF a.kind = "transport" THEN [err |-> TransportErr, res |-> NilSlice]
  ELSE IF ~a.complete THEN [err |-> ReadErr, res |-> NilSlice]
  ELSE IF a.status \notin 200..299 THEN [err |-> StatusErr(a.body), res |-> NilSlice]
  ELSE [err |-> NilErr, res |-> Bytes(a.body)]

WorkerOutcomeNoBody(a) ==
  IF a.kind = "transport" THEN [err |-> TransportErr, res |-> NilSlice]
  ELSE IF ~a.complete THEN [err |-> ReadErr, res |-> NilSlice]
  ELSE IF a.status # 200 THEN [err |-> [kind |-> "status"], res |-> NilSlice]
  ELSE [err |-> NilErr, res |-> Bytes(a.body)]

WorkerOutcomeKeepBody(a) ==
  IF a.kind = "transport" THEN [err |-> TransportErr, res |-> NilSlice]
  ELSE IF ~a.complete THEN [err |-> ReadErr, res |-> NilSlice]
  ELSE IF a.status # 200 THEN [err |-> StatusErr(a.body), res |-> Bytes(a.body)]
  ELSE [err |-> NilErr, res |-> Bytes(a.body)]

WorkerOutcome(a) ==
  IF a.kind = "transport" THEN [err |-> TransportErr, res |-> NilSlice]
  ELSE IF ~a.complete THEN [err |-> ReadErr, res |-> NilSlice]
  ELSE IF a.status # 200 THEN [err |-> StatusErr(a.body), res |-> NilSlice]
  ELSE [err |-> NilErr, res |-> Bytes(a.body)]

(***************************************************************************)
(* The shard answers (or the transport fails), the goroutine reads the     *)
(* answer, fills its slot and finishes (main.go 226-251).  A goroutine     *)
(* whose shard never answers stays at "sent".                              *)
(***************************************************************************)
WorkerReceive(g) ==
  /\ wpc[g] = "sent"
  /\ \E a \in ShardAnswers(format, mergeStrategy) :
       LET o == WorkerOutcome(a)
           i == wargs[g].i
       IN /\ wresp' = [wresp EXCEPT ![g] = a]
          /\ errs' = IF o.err # NilErr THEN [errs EXCEPT ![i] = o.err] ELSE errs
          /\ results' = IF ~o.res.nil THEN [results EXCEPT ![i] = o.res] ELSE results
  /\ Done(g)
  /\ UNCHANGED <<routeVars, hpc, w, body, next, wargs, wreq, calls, handlerVars>>

\* wg.Wait() returns when the counter is zero; the variant does not wait
WaitDoneNoBarrier == TRUE

WaitDone == wg = 0

\* for _, e := range errs { if e != nil { return nil, e } } (main.go 255-259);
\* the variant scans from the last slot
RECURSIVE LastError(_)
LastError(es) ==
  IF es = <<>> THEN NilErr
  ELSE IF es[Len(es)] # NilErr THEN es[Len(es)]
  ELSE LastError(SubSeq(es, 1, Len(es) - 1))

\* ... or takes the error that was recorded first
FirstRecordedError(es) ==
  LET failed == {k \in DOMAIN doneOrder : es[doneOrder[k]] # NilErr}
  IN IF failed = {} THEN NilErr
     ELSE es[doneOrder[CHOOSE k \in failed : \A l \in failed : k <= l]]

RECURSIVE FirstError(_)
FirstError(es) ==
  IF es = <<>> THEN NilErr
  ELSE IF Head(es) # NilErr THEN Head(es)
  ELSE FirstError(Tail(es))

\* getEndpointData from wg.Wait() to its return (main.go 253-260)
GedReturn ==
  /\ hpc = "wait"
  /\ WaitDone
  /\ LET e == FirstError(errs)
     IN IF e # NilErr
          THEN data' = NoData /\ err' = e
          ELSE data' = Data(results) /\ err' = NilErr
  /\ hpc' = "returned"
  /\ UNCHANGED <<routeVars, w, gedVars, workerVars, merged, mergeCalls>>

\* http.Error(w, e.Error(), http.StatusBadRequest): the header is replaced,
\* the status written and the text printed with fmt.Fprintln, which ends it
\* with a newline; the variant writes the text with the implicit status 200
ErrorText(e) == [kind |-> "error text", err |-> e]
Newline == [kind |-> "newline"]

httpErrorStatusOK(e) ==
  [ctype |-> "text/plain; charset=utf-8",
   status |-> 200,
   body |-> w.body \o <<ErrorText(e), Newline>>]

httpError(e) ==
  [ctype |-> "text/plain; charset=utf-8",
   status |-> 400,
   body |-> w.body \o <<ErrorText(e), Newline>>]

\* the error of a failed mergeData, as the handler sees it
MergeErr(msg) == [kind |-> "merge", msg |-> msg]

\* main.go 169-172; the variant has written the payloads that arrived before
\* it looks at the error
HandlerDispatchErrorAfterWrite ==
  /\ hpc = "returned"
  /\ err # NilErr
  /\ w' = [httpError(err) EXCEPT
             !.body = <<[kind |-> "payload", out |-> results]>> \o @]
  /\ hpc' = "done"
  /\ UNCHANGED <<routeVars, gedVars, workerVars, handlerVars>>

HandlerDispatchError ==
  /\ hpc = "returned"
  /\ err # NilErr
  /\ w' = httpError(err)
  /\ hpc' = "done"
  /\ UNCHANGED <<routeVars, gedVars, workerVars, handlerVars>>

\* main.go 173
HandlerMerge ==
  /\ hpc = "returned"
  /\ err = NilErr
  /\ merged' \in mergeData(data.list, format, mergeStrategy)
  /\ mergeCalls' = mergeCalls + 1
  /\ hpc' = "merged"
  /\ UNCHANGED <<routeVars, w, gedVars, workerVars, data, err>>

\* main.go 174-177
HandlerMergeError ==
  /\ hpc = "merged"
  /\ ~merged.ok
  /\ w' = httpError(MergeErr(merged.err))
  /\ hpc' = "done"
  /\ UNCHANGED <<routeVars, gedVars, workerVars, handlerVars>>

\* main.go 178-180: w.Write(merged), with the implicit status 200
HandlerWrite ==
  /\ hpc = "merged"
  /\ merged.ok
  /\ w' = [w EXCEPT !.status = 200,
                    !.body = Append(w.body, [kind |-> "payload", out |-> merged.out])]
  /\ hpc' = "done"
  /\ UNCHANGED <<routeVars, gedVars, workerVars, handlerVars>>

Next ==
  \/ HandlerStart
  \/ ReadBody
  \/ Spawn
  \/ \E g \in 1..N : WorkerSend(g)
  \/ \E g \in 1..N : WorkerReceive(g)
  \/ GedReturn
  \/ HandlerDispatchError
  \/ HandlerMerge
  \/ HandlerMergeError
  \/ HandlerWrite

Spec == Init /\ [][Next]_vars

\* the steps of the goroutine that serves the request
HandlerStep ==
  \/ HandlerStart
  \/ ReadBody
  \/ Spawn
  \/ GedReturn
  \/ HandlerDispatchError
  \/ HandlerMerge
  \/ HandlerMergeError
  \/ HandlerWrite

\* the steps of goroutine g, if the dispatch has one
WorkerSendStep(g) == g \in 1..N /\ WorkerSend(g)
WorkerReceiveStep(g) == g \in 1..N /\ WorkerReceive(g)

\* The Go scheduler runs every runnable goroutine sooner or later, and every
\* call of http.DefaultClient.Do comes back, with a response or an error.
Fairness ==
  /\ WF_vars(HandlerStep)
  /\ \A g \in 1..MaxEndpoints : WF_vars(WorkerSendStep(g))
  /\ \A g \in 1..MaxEndpoints : WF_vars(WorkerReceiveStep(g))

SpecLive == Spec /\ Fairness

(***************************************************************************)
(* mergeData on its own: the handler from the point where getEndpointData  *)
(* has returned the payloads of n shards that all answered 200.            *)
(***************************************************************************)
JSONRoutes == {routes[2], routes[3]}       \* a Merge route and a Sum route
NDJSONRoutes == {routes[1]}

InitMergeOn(rs, maxShards) ==
  /\ NoFlags
  /\ NoMux
  /\ \E r \in rs :
       /\ path = r.Path
       /\ format = r.Format
       /\ mergeStrategy = r.MergeStrategy
  /\ \E n \in 1..maxShards :
       /\ endpoints = [i \in 1..n |-> Endpoint("1", "p1", "http://node1")]
       /\ \E list \in PayloadLists(format, mergeStrategy, n) :
            /\ results = [i \in 1..n |-> Bytes(list[i])]
            /\ wresp = [g \in 1..n |-> Response(200, list[g], TRUE)]
  /\ req = InboundRequest("POST", "filter=ok", "application/json", "test payload")
  /\ hpc = "returned"
  /\ w = [NoResponse EXCEPT !.ctype = IF format = JSON THEN "application/json"
                                                       ELSE "application/x-ndjson"]
  /\ body = Bytes(req.Body)
  /\ errs = [i \in 1..N |-> NilErr]
  /\ wg = 0
  /\ next = N + 1
  /\ wpc = [g \in 1..N |-> "done"]
  /\ wargs = [g \in 1..N |-> GoArgs(g)]
  /\ wreq = [g \in 1..N |-> NewRequest(endpoints[g], path, req, body.b)]
  /\ calls = [g \in 1..N |-> 1]
  /\ doneOrder = [g \in 1..N |-> g]
  /\ data = Data(results)
  /\ err = NilErr
  /\ merged = NotMerged
  /\ mergeCalls = 0
  /\ peer = NoPeer

InitMerge == InitMergeOn(JSONRoutes, MaxShards)

NextMerge ==
  \/ HandlerMerge
  \/ HandlerMergeError
  \/ HandlerWrite

\* mergeData for format JSON
SpecMerge == InitMerge /\ [][NextMerge]_vars

InitNDJSON == InitMergeOn(NDJSONRoutes, MaxNDShards)

\* mergeData for format NDJSON, which returns no error
NextNDJSON ==
  \/ HandlerMerge
  \/ HandlerWrite

SpecNDJSON == InitNDJSON /\ [][NextNDJSON]_vars

(***************************************************************************)
(* parseEndpointsFromFlags on its own, called as main calls it (main.go    *)
(* 131) and as TestParseEndpointsFromFlags calls it.                       *)
(***************************************************************************)
InitFlags ==
  /\ idsFlag \in TenantSpecs
  /\ nodesFlag \in NodeSpecs
  /\ parsed = NotParsed
  /\ NoMux
  /\ endpoints = <<>>
  /\ path = routes[1].Path
  /\ format = routes[1].Format
  /\ mergeStrategy = routes[1].MergeStrategy
  /\ req = InboundRequest("GET", "", "", "")
  /\ hpc = "idle"
  /\ w = NoResponse
  /\ body = NilSlice
  /\ errs = <<>>
  /\ results = <<>>
  /\ wg = 0
  /\ next = 1
  /\ wpc = <<>>
  /\ wargs = <<>>
  /\ wreq = <<>>
  /\ wresp = <<>>
  /\ calls = <<>>
  /\ doneOrder = <<>>
  /\ data = NoData
  /\ err = NilErr
  /\ merged = NotMerged
  /\ mergeCalls = 0
  /\ peer = NoPeer

ParseFlags ==
  /\ ~parsed.called
  /\ parsed' = [called |-> TRUE] @@ parseEndpointsFromFlags(idsFlag, nodesFlag)
  /\ UNCHANGED <<idsFlag, nodesFlag, muxVars, endpoints, path, format,
                 mergeStrategy, req, peer, hpc, w, gedVars, workerVars, handlerVars>>

NextFlags == ParseFlags

SpecFlags == InitFlags /\ [][NextFlags]_vars

(***************************************************************************)
(* main from its loop over routes on (main.go 148-155): every route is     *)
(* registered with http.HandleFunc, which panics on a path registered      *)
(* twice; then the server takes a request for a registered path and calls  *)
(* the handler registered for exactly that path.                           *)
(***************************************************************************)
\* makeJSONHandler(route.Path, route.Format, route.MergeStrategy, endpoints);
\* the variant builds every handler from the last route of the table
HandlerOfLastRoute(route) ==
  [path |-> routes[Len(routes)].Path,
   format |-> routes[Len(routes)].Format,
   mergeStrategy |-> routes[Len(routes)].MergeStrategy]

HandlerOf(route) ==
  [path |-> route.Path, format |-> route.Format, mergeStrategy |-> route.MergeStrategy]

InitRoutes ==
  /\ NoFlags
  /\ mux = EmptyMux
  /\ rnext = 1
  /\ endpoints = <<Endpoint("1", "p1", "http://node1"), Endpoint("2", "p2", "http://node2")>>
  /\ path = ""
  /\ format = JSON
  /\ mergeStrategy = Merge
  /\ req = InboundRequest("POST", "filter=ok", "application/json", "test payload")
  /\ hpc = "main"
  /\ w = NoResponse
  /\ body = NilSlice
  /\ errs = <<>>
  /\ results = <<>>
  /\ wg = 0
  /\ next = 1
  /\ wpc = [g \in 1..N |-> "none"]
  /\ wargs = [g \in 1..N |-> [i |-> 0]]
  /\ wreq = [g \in 1..N |-> NoRequest]
  /\ wresp = [g \in 1..N |-> NoAnswer]
  /\ calls = [g \in 1..N |-> 0]
  /\ doneOrder = <<>>
  /\ data = NoData
  /\ err = NilErr
  /\ merged = NotMerged
  /\ mergeCalls = 0
  /\ peer = NoPeer

\* one iteration of for _, r := range routes (main.go 149-152)
Register ==
  /\ hpc = "main"
  /\ rnext \in 1..Len(routes)
  /\ LET route == routes[rnext]
     IN IF route.Path \in DOMAIN mux
          THEN mux' = mux /\ rnext' = 0
          ELSE /\ mux' = mux @@ (route.Path :> HandlerOf(route))
               /\ rnext' = rnext + 1
  /\ UNCHANGED <<flagVars, endpoints, path, format, mergeStrategy, req, peer, hpc, w,
                 gedVars, workerVars, handlerVars>>

\* http.ListenAndServe: a request for the path p, which the ServeMux matches
\* exactly, runs the handler registered for p
Serve ==
  /\ hpc = "main"
  /\ rnext = Len(routes) + 1
  /\ \E p \in DOMAIN mux :
       /\ req' = [Path |-> p] @@ req
       /\ path' = mux[p].path
       /\ format' = mux[p].format
       /\ mergeStrategy' = mux[p].mergeStrategy
  /\ hpc' = "idle"
  /\ UNCHANGED <<flagVars, muxVars, endpoints, peer, w, gedVars, workerVars, handlerVars>>

NextRoutes ==
  \/ Register
  \/ Serve
  \/ Next

SpecRoutes == InitRoutes /\ [][NextRoutes]_vars

(***************************************************************************)
(* A handler called with requests that carry headers of their own.         *)
(***************************************************************************)
\* the locals of a call of the handler that has not started
Fresh ==
  /\ hpc = "idle"
  /\ w = NoResponse
  /\ body = NilSlice
  /\ errs = <<>>
  /\ results = <<>>
  /\ wg = 0
  /\ next = 1
  /\ wpc = [g \in 1..N |-> "none"]
  /\ wargs = [g \in 1..N |-> [i |-> 0]]
  /\ wreq = [g \in 1..N |-> NoRequest]
  /\ wresp = [g \in 1..N |-> NoAnswer]
  /\ calls = [g \in 1..N |-> 0]
  /\ doneOrder = <<>>
  /\ data = NoData
  /\ err = NilErr
  /\ merged = NotMerged
  /\ mergeCalls = 0

InitClient ==
  /\ NoFlags
  /\ NoMux
  /\ endpoints = <<Endpoint("1", "p1", "http://node1"), Endpoint("2", "p2", "http://node2")>>
  /\ \E r \in HandlerRoutes :
       /\ path = r.Path
       /\ format = r.Format
       /\ mergeStrategy = r.MergeStrategy
  /\ req \in ClientRequests
  /\ Fresh
  /\ peer = NoPeer

SpecClient == InitClient /\ [][Next]_vars

(***************************************************************************)
(* Two requests in flight.  net/http runs each call of the handler in a    *)
(* goroutine of its own; what the call declares (main.go 159-203) is its   *)
(* own, what the closure captured (endpoints) is shared.  The variables    *)
(* hold the locals of the call the scheduler runs next, peer those of the  *)
(* other call.                                                             *)
(***************************************************************************)
Activation ==
  [path |-> path, format |-> format, mergeStrategy |-> mergeStrategy,
   req |-> req, hpc |-> hpc, w |-> w, body |-> body, errs |-> errs,
   results |-> results, wg |-> wg, next |-> next, wpc |-> wpc, wargs |-> wargs,
   wreq |-> wreq, wresp |-> wresp, calls |-> calls, doneOrder |-> doneOrder,
   data |-> data, err |-> err, merged |-> merged, mergeCalls |-> mergeCalls]

\* a call of the handler of route for the request r that has not started
FreshActivation(route, r) ==
  [path |-> route.Path, format |-> route.Format,
   mergeStrategy |-> route.MergeStrategy,
   req |-> r, hpc |-> "idle", w |-> NoResponse, body |-> NilSlice,
   errs |-> <<>>, results |-> <<>>, wg |-> 0, next |-> 1,
   wpc |-> [g \in 1..N |-> "none"], wargs |-> [g \in 1..N |-> [i |-> 0]],
   wreq |-> [g \in 1..N |-> NoRequest], wresp |-> [g \in 1..N |-> NoAnswer],
   calls |-> [g \in 1..N |-> 0], doneOrder |-> <<>>,
   data |-> NoData, err |-> NilErr, merged |-> NotMerged, mergeCalls |-> 0]

\* the pairs of routes of the two requests: any two with one endpoint, the
\* first route twice with two
RoutePairs(n) ==
  IF n = 1 THEN HandlerRoutes \X HandlerRoutes ELSE {<<routes[1], routes[1]>>}

InitIsolation ==
  /\ NoFlags
  /\ NoMux
  /\ endpoints \in {<<Endpoint("1", "p1", "http://node1")>>,
                    <<Endpoint("1", "p1", "http://node1"),
                      Endpoint("2", "p2", "http://node2")>>}
  /\ \E rs \in RoutePairs(N) :
       /\ path = rs[1].Path
       /\ format = rs[1].Format
       /\ mergeStrategy = rs[1].MergeStrategy
       /\ peer = FreshActivation(rs[2], InboundRequest("GET", "", "", ""))
  /\ req = InboundRequest("POST", "filter=ok", "application/json", "test payload")
  /\ Fresh

\* the scheduler turns to the goroutines of the other request; in the
\* variant errs and results are one pair of slices for all requests
SwitchSharedSlots ==
  /\ peer # NoPeer
  /\ peer' = Activation
  /\ path' = peer.path
  /\ format' = peer.format
  /\ mergeStrategy' = peer.mergeStrategy
  /\ req' = peer.req
  /\ hpc' = peer.hpc
  /\ w' = peer.w
  /\ body' = peer.body
  /\ errs' = errs
  /\ results' = results
  /\ wg' = peer.wg
  /\ next' = peer.next
  /\ wpc' = peer.wpc
  /\ wargs' = peer.wargs
  /\ wreq' = peer.wreq
  /\ wresp' = peer.wresp
  /\ calls' = peer.calls
  /\ doneOrder' = peer.doneOrder
  /\ data' = peer.data
  /\ err' = peer.err
  /\ merged' = peer.merged
  /\ mergeCalls' = peer.mergeCalls
  /\ UNCHANGED <<flagVars, muxVars, endpoints>>

Switch ==
  /\ peer # NoPeer
  /\ peer' = Activation
  /\ path' = peer.path
  /\ format' = peer.format
  /\ mergeStrategy' = peer.mergeStrategy
  /\ req' = peer.req
  /\ hpc' = peer.hpc
  /\ w' = peer.w
  /\ body' = peer.body
  /\ errs' = peer.errs
  /\ results' = peer.results
  /\ wg' = peer.wg
  /\ next' = peer.next
  /\ wpc' = peer.wpc
  /\ wargs' = peer.wargs
  /\ wreq' = peer.wreq
  /\ wresp' = peer.wresp
  /\ calls' = peer.calls
  /\ doneOrder' = peer.doneOrder
  /\ data' = peer.data
  /\ err' = peer.err
  /\ merged' = peer.merged
  /\ mergeCalls' = peer.mergeCalls
  /\ UNCHANGED <<flagVars, muxVars, endpoints>>

NextIsolation ==
  \/ Switch
  \/ Next

SpecIsolation == InitIsolation /\ [][NextIsolation]_vars

(***************************************************************************)
(* Properties of the dispatch (getEndpointData and its caller).            *)
(***************************************************************************)
Returned == hpc \in {"returned", "merged", "done"}      \* getEndpointData has returned
Dispatched == ~body.nil                                 \* the inbound body was read

\* the call of goroutine g failed: transport failure, broken body, status not 200
CallFailed(g) ==
  /\ wresp[g] # NoAnswer
  /\ \/ wresp[g].kind = "transport"
     \/ ~wresp[g].complete
     \/ wresp[g].status # 200

CallSucceeded(g) ==
  /\ wresp[g].kind = "response"
  /\ wresp[g].complete
  /\ wresp[g].status = 200

\* what the call for endpoint i came to: no call at all when the URL does not parse
CallResult(i) ==
  IF wresp[i] = NoAnswer THEN [err |-> NewRequestErr, res |-> NilSlice]
  ELSE IF wresp[i].kind = "transport" THEN [err |-> TransportErr, res |-> NilSlice]
  ELSE IF ~wresp[i].complete THEN [err |-> ReadErr, res |-> NilSlice]
  ELSE IF wresp[i].status = 200 THEN [err |-> NilErr, res |-> Bytes(wresp[i].body)]
  ELSE [err |-> StatusErr(wresp[i].body), res |-> NilSlice]

\* C1: all-or-nothing dispatch.  Once a shard has answered with a status other
\* than 200 (201 included) or its call has failed at transport level, mergeData
\* is not called for the request, getEndpointData returns an error and no
\* payload list, and the response is never a 200, whatever the other shards
\* answered.
C1_AllOrNothing ==
  (\E g \in 1..N : CallFailed(g)) =>
     /\ mergeCalls = 0
     /\ w.status # 200
     /\ Returned => (err # NilErr /\ data = NoData)
     /\ hpc = "done" => w.status = 400

C1_Witness ==
  /\ hpc = "done"
  /\ \E g, h \in 1..N :
       /\ CallSucceeded(g)
       /\ wresp[h].kind = "response" /\ wresp[h].complete /\ wresp[h].status = 201
  /\ w.status = 400

\* C2: completion barrier.  getEndpointData has not returned while a goroutine
\* it started has not finished, also when another goroutine has already
\* recorded an error; a goroutine whose shard never answers keeps it from
\* returning.  (When the inbound body cannot be read no goroutine is started.)
C2_Barrier ==
  /\ (Returned /\ Dispatched) => \A g \in 1..N : wpc[g] = "done"
  /\ (Returned /\ ~Dispatched) => \A g \in 1..N : wpc[g] = "none"
  /\ \A g \in 1..N : wpc[g] \in {"start", "sent"} => hpc \in {"loop", "wait"}

C2_Witness ==
  /\ hpc = "returned"
  /\ Len(doneOrder) = N
  /\ N >= 2
  /\ errs[doneOrder[1]] # NilErr

\* C3: slot/endpoint correspondence.  errs and results have one slot per
\* endpoint, goroutine i is started for endpoint i, and once getEndpointData
\* has passed the barrier slot i holds what the call to endpoint i came to,
\* in whatever order the goroutines finished.
C3_SlotCorrespondence ==
  /\ Dispatched => (Len(errs) = Len(endpoints) /\ Len(results) = Len(endpoints))
  /\ (Returned /\ Dispatched) =>
       \A i \in 1..N :
          /\ wargs[i] = [i |-> i, ep |-> endpoints[i]]
          /\ wreq[i] # NoRequest =>
               /\ wreq[i].URL[1] = endpoints[i].URL
               /\ wreq[i].AccountID = endpoints[i].AccountID
               /\ wreq[i].ProjectID = endpoints[i].ProjectID
          /\ errs[i] = CallResult(i).err
          /\ results[i] = CallResult(i).res

C3_Witness ==
  /\ hpc = "returned"
  /\ N = 2
  /\ doneOrder = <<2, 1>>
  /\ endpoints[1] # endpoints[2]
  /\ CallSucceeded(1) /\ CallSucceeded(2)
  /\ results[1] # results[2]

\* C4: after the barrier every slot holds exactly one of a payload
\* (results[i] is not nil) and an error (errs[i] is not nil).
C4_ExactlyOne ==
  (Returned /\ Dispatched) =>
     \A i \in 1..N : (errs[i] # NilErr) # (~results[i].nil)

C4_Witness ==
  /\ hpc = "returned"
  /\ Dispatched
  /\ format = NDJSON
  /\ \E i, j \in 1..N :
       /\ errs[i] # NilErr /\ results[i].nil
       /\ errs[j] = NilErr /\ results[j] = Bytes(<<>>)

\* C5: deterministic error choice.  When calls have failed, the error that
\* getEndpointData returns is the one of the failed call with the lowest
\* index in the endpoint list, not the one of the call that failed first.
FailedIndexes == {i \in 1..N : CallResult(i).err # NilErr}
LowestFailed == CHOOSE i \in FailedIndexes : \A j \in FailedIndexes : i <= j

C5_LowestIndexError ==
  (Returned /\ Dispatched /\ FailedIndexes # {}) =>
     err = CallResult(LowestFailed).err

C5_Witness ==
  /\ hpc = "returned"
  /\ N = 2
  /\ doneOrder = <<2, 1>>
  /\ errs[1] # NilErr /\ errs[2] # NilErr
  /\ errs[1] # errs[2]
  /\ err = errs[1]

(***************************************************************************)
(* Properties of mergeData, read in the states where it has returned.      *)
(***************************************************************************)
MergeReturned == hpc \in {"merged", "done"}
Payload(i) == data.list[i].b              \* the payload of shard i

\* the newline-delimited records of a byte string: the pieces between the
\* newlines, a last piece without a newline included
RECURSIVE Records(_)
Records(b) ==
  IF b = <<>> THEN <<>>
  ELSE LET j == IndexNL(b, 1)
       IN IF j = 0 THEN <<b>>
          ELSE <<SubSeq(b, 1, j - 1)>> \o Records(SubSeq(b, j + 1, Len(b)))

RECURSIVE AllRecords(_)
AllRecords(list) ==
  IF list = <<>> THEN <<>>
  ELSE Records(Head(list).b) \o AllRecords(Tail(list))

RECURSIVE Terminated(_)
Terminated(recs) ==
  IF recs = <<>> THEN <<>> ELSE Head(recs) \o <<NL>> \o Terminated(Tail(recs))

NoCarriageReturn(b) == \A k \in DOMAIN b : b[k] # CR

\* C6: NDJSON merge completeness and order.  For payloads of records of any
\* length, the output is every record of every shard, each followed by one
\* newline, shards in list order and records in their order, and it has as
\* many lines as the shards have records.  (Stated for payloads without
\* carriage returns.)
C6_NDJSONComplete ==
  (MergeReturned /\ format = NDJSON
     /\ \A i \in 1..N : NoCarriageReturn(Payload(i))) =>
       /\ merged.ok
       /\ merged.out = Terminated(AllRecords(data.list))
       /\ Len(Records(merged.out)) = Len(AllRecords(data.list))

\* a JSON text of the shape {"values":[{"value":string,"hits":integer},...]}
WellShaped(doc) ==
  /\ doc.t = "object"
  /\ "values" \in DOMAIN doc.m
  /\ doc.m["values"].t = "array"
  /\ \A k \in DOMAIN doc.m["values"].a :
       LET e == doc.m["values"].a[k]
       IN /\ e.t = "object"
          /\ {"hits", "value"} \subseteq DOMAIN e.m
          /\ e.m["hits"].t = "number"
          /\ e.m["value"].t = "string"

AllWellShaped == \A i \in 1..N : WellShaped(Payload(i))

\* the entries of all payloads, and the hits they give the value v
RECURSIVE InputEntries(_)
InputEntries(list) ==
  IF list = <<>> THEN <<>>
  ELSE Head(list).b.m["values"].a \o InputEntries(Tail(list))

RECURSIVE HitsOf(_, _)
HitsOf(entries, v) ==
  IF entries = <<>> THEN 0
  ELSE (IF Head(entries).m["value"].s = v THEN Head(entries).m["hits"].n ELSE 0)
       + HitsOf(Tail(entries), v)

C8_SumDecodeFailure ==
  (MergeReturned /\ format = JSON /\ mergeStrategy = Sum /\ ~AllWellShaped) =>
     ~merged.ok

\* the set of (value, hits) pairs of a text {"values":[...]}
Pairs(doc) ==
  {<<doc.m["values"].a[k].m["value"].s, doc.m["values"].a[k].m["hits"].n>>
     : k \in DOMAIN doc.m["values"].a}

\* C9: sum merge is commutative.  For payloads of the shape above, every result
\* of mergeData with Sum on every permutation of the list has the same set of
\* (value, hits) pairs as the result for the list itself.
C9_SumCommutative ==
  (MergeReturned /\ format = JSON /\ mergeStrategy = Sum /\ AllWellShaped) =>
     \A p \in Perms(1..N) :
        \A r \in mergeData([i \in 1..N |-> data.list[p[i]]], JSON, Sum) :
           /\ r.ok /\ merged.ok
           /\ Pairs(r.out) = Pairs(merged.out)

C9_Witness ==
  /\ MergeReturned /\ format = JSON /\ mergeStrategy = Sum
  /\ N = 2
  /\ Payload(1) = SumDoc(<<SumEntry("A", 1)>>)
  /\ Payload(2) = SumDoc(<<SumEntry("A", 1), SumEntry("B", 2)>>)
  /\ merged.ok
  /\ Pairs(merged.out) = {<<"A", 2>>, <<"B", 2>>}

\* C10: structural merge of disjoint objects.  For payloads that are JSON
\* objects with pairwise disjoint key sets, mergeData with JSON and Merge
\* returns the object whose keys are the union of the payloads' keys, each
\* with the value it has in its payload.
DisjointObjects ==
  /\ \A i \in 1..N : Payload(i).t = "object"
  /\ \A i, j \in 1..N : i # j => DOMAIN Payload(i).m \cap DOMAIN Payload(j).m = {}

C10_DisjointUnion ==
  (MergeReturned /\ format = JSON /\ mergeStrategy = Merge /\ DisjointObjects) =>
     /\ merged.ok
     /\ merged.out.t = "object"
     /\ DOMAIN merged.out.m = UNION {DOMAIN Payload(i).m : i \in 1..N}
     /\ \A i \in 1..N : \A k \in DOMAIN Payload(i).m :
          merged.out.m[k] = Payload(i).m[k]

C10_Witness ==
  /\ MergeReturned /\ format = JSON /\ mergeStrategy = Merge
  /\ N = 2
  /\ Payload(1) = JObj("foo" :> JNum(2))
  /\ Payload(2) = JObj("bar" :> JNum(3))
  /\ merged = OK(JObj("foo" :> JNum(2) @@ "bar" :> JNum(3)))

(***************************************************************************)
(* Properties of parseEndpointsFromFlags.                                  *)
(***************************************************************************)
Tenants == Split(idsFlag, ",")          \* the entries of the tenant spec
Nodes == Split(nodesFlag, ",")          \* the entries of the storage-node spec

\* the entry has the separator of <tenantID>:<projectID>
HasSeparator(entry) == \E k \in 1..Len(entry) : entry[k] = ":"
BeforeSeparator(entry) ==
  LET t == TrimSpace(entry)
      k == CHOOSE j \in 1..Len(t) : t[j] = ":" /\ \A l \in 1..(j - 1) : t[l] # ":"
  IN SubSeq(t, 1, k - 1)

\* C11: for a tenant spec of T >= 1 entries that all have the separator and
\* a node spec of N >= 1 entries, parseEndpointsFromFlags returns no error
\* and exactly T x N endpoints, the one of tenant t and node n (nodes in the
\* outer loop) bearing the account of t and the URL of n, which is not empty
\* and starts with the scheme http://.
C11_CrossProduct ==
  (parsed.called /\ \A t \in 1..Len(Tenants) : HasSeparator(Tenants[t])) =>
    LET T == Len(Tenants)
    IN /\ T >= 1 /\ Len(Nodes) >= 1
       /\ parsed.err = ""
       /\ Len(parsed.endpoints) = T * Len(Nodes)
       /\ \A n \in 1..Len(Nodes) : \A t \in 1..T :
            LET e == parsed.endpoints[(n - 1) * T + t]
            IN /\ e.AccountID = BeforeSeparator(Tenants[t])
               /\ e.ProjectID = Split(TrimSpace(Tenants[t]), ":")[2]
               /\ e.URL \in {Nodes[n], <<"http://">> \o Nodes[n]}
               /\ e.URL # <<>>
               /\ Head(e.URL) = "http://"

\* two tenants on two nodes, one of which has the scheme already
C11_Witness ==
  /\ parsed.called
  /\ idsFlag = <<"1", ":", "projA", ",", "2", ":", "projB">>
  /\ nodesFlag = <<"node2.com", ",", "http://", "node1.com">>
  /\ Len(parsed.endpoints) = 4
  /\ parsed.endpoints[4] =
       Endpoint(<<"2">>, <<"projB">>, <<"http://", "node1.com">>)

C13_EmptySpecsFail ==
  (parsed.called /\ (idsFlag = <<>> \/ nodesFlag = <<>>)) => parsed.err # ""

(***************************************************************************)
(* Properties of the handler built by makeJSONHandler.                     *)
(***************************************************************************)
Finished == hpc = "done"                        \* the handler has returned
MergeFailed == mergeCalls > 0 /\ ~merged.ok    \* mergeData returned an error
Failure == err # NilErr \/ MergeFailed          \* either call returned an error

\* a body of the route's kind: any bytes for NDJSON, a JSON object for
\* Merge, an object of the shape {"values":[{"value":..,"hits":..}]} for Sum
WellFormedBody(b) ==
  \/ format = NDJSON
  \/ format = JSON /\ mergeStrategy = Merge /\ b.t = "object"
  \/ format = JSON /\ mergeStrategy = Sum /\ WellShaped(b)

AllAnswered200 ==
  /\ Dispatched
  /\ \A g \in 1..N : CallSucceeded(g) /\ WellFormedBody(wresp[g].body)

\* C14: when every shard has answered 200 with a well-formed body, the
\* response of the handler has status 200, the output of mergeData on the
\* shards' bodies as its body, and the Content-Type application/x-ndjson on
\* an NDJSON route, application/json on a JSON route.
C14_SuccessResponse ==
  (Finished /\ AllAnswered200) =>
    /\ w.status = 200
    /\ \E r \in mergeData([i \in 1..N |-> Bytes(wresp[i].body)], format, mergeStrategy) :
         r.ok /\ w.body = <<[kind |-> "payload", out |-> r.out]>>
    /\ w.ctype = IF format = NDJSON THEN "application/x-ndjson" ELSE "application/json"

C14_Witness ==
  /\ Finished /\ AllAnswered200
  /\ format = NDJSON /\ N = 2
  /\ w.ctype = "application/x-ndjson"
  /\ w.body = <<[kind |-> "payload", out |-> <<ByteA, NL, ByteA, NL>>]>>

\* C15 as stated: whenever getEndpointData or mergeData has returned an
\* error, the response is never a 200, and the finished response has a 4xx
\* status and the error text, as plain text, for its body.
C15_FailureResponse ==
  Failure =>
    /\ w.status # 200
    /\ Finished =>
         /\ w.status \in 400..499
         /\ w.ctype = "text/plain; charset=utf-8"
         /\ w.body = <<ErrorText(IF err # NilErr THEN err ELSE MergeErr(merged.err))>>

\* C15 amended: the body is the error text followed by one newline.
C15_FailureResponseLine ==
  Failure =>
    /\ w.status # 200
    /\ Finished =>
         /\ w.status \in 400..499
         /\ w.ctype = "text/plain; charset=utf-8"
         /\ w.body = <<ErrorText(IF err # NilErr THEN err ELSE MergeErr(merged.err)),
                       Newline>>

\* a failed mergeData after a successful dispatch on a JSON route
C15_Witness ==
  /\ Finished /\ MergeFailed
  /\ format = JSON
  /\ w.status = 400
  /\ w.body = <<ErrorText(MergeErr(merged.err)), Newline>>

PayloadWrites == {k \in DOMAIN w.body : w.body[k].kind = "payload"}

\* C16: the handler writes merged payload bytes at most once, and only when
\* getEndpointData and mergeData have both returned without error; when
\* either has failed, nothing of a merged or partly merged output is in the
\* response.
C16_NoPartialOutput ==
  /\ Cardinality(PayloadWrites) <= 1
  /\ PayloadWrites # {} =>
       /\ Returned /\ err = NilErr /\ ~data.nil
       /\ mergeCalls = 1 /\ merged.ok
       /\ \A k \in PayloadWrites : w.body[k].out = merged.out
  /\ Failure => PayloadWrites = {}

\* one shard has delivered its payload, the other has failed
C16_Witness ==
  /\ Finished /\ Dispatched /\ N = 2
  /\ CallSucceeded(1) /\ ~results[1].nil
  /\ CallFailed(2)
  /\ PayloadWrites = {}
  /\ Len(w.body) = 2

(***************************************************************************)
(* Properties of the goroutines of getEndpointData.                        *)
(***************************************************************************)
\* goroutine g takes a step
Steps(g) == wpc'[g] # wpc[g] /\ wpc[g] \in {"start", "sent"}

\* C17: the goroutine started for index i writes only errs[i] and
\* results[i]; no two goroutines have the same slot; a slot is written at
\* most once (it is still unwritten when it changes); and getEndpointData
\* goes on to read the slots only when every goroutine has finished.
C17_RaceFreeSlots ==
  [][ Dispatched =>
        /\ \A g \in 1..N : Steps(g) =>
             /\ wargs[g].i = g
             /\ \A j \in 1..N : j # g =>
                  errs'[j] = errs[j] /\ results'[j] = results[j]
        /\ \A g \in 1..N : \A h \in 1..N :
             (g # h /\ wpc[g] # "none" /\ wpc[h] # "none") => wargs[g].i # wargs[h].i
        /\ \A i \in 1..N :
             (errs'[i] # errs[i] \/ results'[i] # results[i]) =>
               /\ Steps(i)
               /\ errs[i] = NilErr /\ results[i].nil
        /\ (hpc = "wait" /\ hpc' = "returned") =>
             \A g \in 1..N : wpc[g] = "done" ]_vars

\* both slots of a dispatch to two shards are written, one of each kind
C17_Witness ==
  /\ Returned /\ Dispatched /\ N = 2
  /\ doneOrder = <<2, 1>>
  /\ errs[1] = TransportErr /\ results[1].nil
  /\ errs[2] = NilErr /\ ~results[2].nil

\* C18 as stated: for a request whose body was read, no endpoint is ever
\* called more than once, and when getEndpointData has returned every
\* endpoint of the list has been called exactly once, with its own URL.
C18_OneCallPerShard ==
  Dispatched =>
    \A i \in 1..N :
      /\ calls[i] <= 1
      /\ Returned => calls[i] = 1 /\ wreq[i].URL[1] = endpoints[i].URL

\* C18 amended: the same for every endpoint whose URL http.NewRequest
\* accepts; for an endpoint whose URL does not parse no request is sent.
C18_OneCallPerValidShard ==
  Dispatched =>
    \A i \in 1..N :
      /\ calls[i] <= 1
      /\ (Returned /\ ValidURL(endpoints[i].URL)) =>
           calls[i] = 1 /\ wreq[i].URL[1] = endpoints[i].URL
      /\ ~ValidURL(endpoints[i].URL) => calls[i] = 0

\* the first shard has failed at transport level before the second was
\* called; the second was called all the same, and neither was called again
C18_Witness ==
  /\ Returned /\ Dispatched /\ N = 2
  /\ doneOrder = <<1, 2>>
  /\ wresp[1] = TransportFailure
  /\ wresp[2].kind = "response" /\ wresp[2].status = 500
  /\ calls = <<1, 1>>

\* C19: the request sent for endpoint i is a POST to the URL of endpoint i
\* followed by the route path, and by "?" and the inbound raw query when
\* that is not empty; its AccountID and ProjectID are those of endpoint i;
\* its Content-Type is the inbound one (none when there is none); its body
\* is the inbound body.
C19_OutboundRequest ==
  \A i \in DOMAIN wreq : wreq[i] # NoRequest =>
    /\ wreq[i].Method = "POST"
    /\ wreq[i].URL = IF req.RawQuery = "" THEN <<endpoints[i].URL, path>>
                     ELSE <<endpoints[i].URL, path, "?", req.RawQuery>>
    /\ wreq[i].AccountID = endpoints[i].AccountID
    /\ wreq[i].ProjectID = endpoints[i].ProjectID
    /\ wreq[i].ContentType = req.ContentType
    /\ wreq[i].Body = req.Body

\* a GET without query and without Content-Type, sent to two tenants
C19_Witness ==
  /\ req.Method = "GET" /\ req.RawQuery = "" /\ req.ContentType = ""
  /\ N = 2
  /\ endpoints[1].AccountID = "1" /\ endpoints[2].AccountID = "2"
  /\ wreq[1] # NoRequest /\ wreq[2] # NoRequest
  /\ wreq[1].Method = "POST" /\ wreq[2].AccountID = "2"

\* the response was sent once: one status, and one payload or one error line
OneResponse ==
  \/ w.status = 200 /\ Len(w.body) = 1 /\ w.body[1].kind = "payload"
  \/ w.status = 400 /\ w.body = <<ErrorText(w.body[1].err), Newline>>

\* C20: with goroutines scheduled fairly and every shard call completing,
\* getEndpointData eventually returns and the handler eventually has sent
\* exactly one response, and stays there.
C20_DispatchLiveness == <>[](Returned /\ Finished /\ OneResponse)

\* a dispatch to two shards that both answered has been responded to
C20_Witness ==
  /\ Finished /\ Dispatched /\ N = 2
  /\ wresp[1].kind = "response" /\ wresp[2].kind = "response"
  /\ OneResponse

(***************************************************************************)
(* Properties of the errors a dispatch reports.                            *)
(***************************************************************************)
\* C21: a shard that answers with a status other than 200 leaves in its slot
\* an error whose message is exactly the body of its response; a call that
\* fails at transport level (in Do, or while the body is read) leaves the
\* transport error; and the text the handler sends is that of the first
\* failing slot.
C21_ShardErrorContent ==
  Dispatched =>
    \A i \in 1..N : wpc[i] = "done" =>
      /\ (wresp[i] # NoAnswer /\ wresp[i].kind = "response"
            /\ wresp[i].complete /\ wresp[i].status # 200) =>
           errs[i] = [kind |-> "status", msg |-> wresp[i].body]
      /\ (wresp[i] # NoAnswer /\ wresp[i].kind = "transport") =>
           errs[i] = TransportErr
      /\ (wresp[i] # NoAnswer /\ wresp[i].kind = "response" /\ ~wresp[i].complete) =>
           errs[i] = ReadErr
      /\ (Finished /\ errs[i] # NilErr /\ \A j \in 1..(i - 1) : errs[j] = NilErr) =>
           w.body[1] = ErrorText(errs[i])

\* the first shard answered 500 with a body, the second failed in transport
C21_Witness ==
  /\ Finished /\ Dispatched /\ N = 2 /\ format = NDJSON
  /\ wresp[1] = Response(500, <<ByteA, NL>>, TRUE)
  /\ wresp[2] = TransportFailure
  /\ errs[2] = TransportErr
  /\ w.body[1] = ErrorText(StatusErr(<<ByteA, NL>>))

(***************************************************************************)
(* Properties of mergeData for format NDJSON.                              *)
(***************************************************************************)
OutLines == Records(merged.out)                 \* the lines of the output
\* what shard i contributes to the output
Contribution(i) == mergeNDJSON(<<data.list[i]>>)
\* the number of records of the shards before shard i
RecordsBefore(i) == Len(AllRecords(SubSeq(data.list, 1, i - 1)))

\* C22: an empty payload contributes no line; a payload whose last record
\* has no newline contributes that record followed by one newline and no
\* empty record after it; the last record of a shard and the first record
\* of the next are separate lines.  So the output has one line per record,
\* it ends in a newline, and the first and the last record of every shard
\* are the lines at their places.  (Stated for payloads without carriage
\* returns.)
C22_RecordBoundaries ==
  (MergeReturned /\ format = NDJSON
     /\ \A i \in 1..N : NoCarriageReturn(Payload(i))) =>
       /\ Len(OutLines) = Len(AllRecords(data.list))
       /\ merged.out # <<>> => merged.out[Len(merged.out)] = NL
       /\ \A i \in 1..N :
            LET recs == Records(Payload(i))
            IN /\ Payload(i) = <<>> => Contribution(i) = <<>>
               /\ recs # <<>> =>
                    /\ OutLines[RecordsBefore(i) + 1] = recs[1]
                    /\ OutLines[RecordsBefore(i) + Len(recs)] = recs[Len(recs)]

RECURSIVE Concat(_)
Concat(seqs) == IF seqs = <<>> THEN <<>> ELSE Head(seqs) \o Concat(Tail(seqs))

\* C23 as stated: every record that mergeData copies to the output is, byte
\* for byte, the input record at its place, carriage returns included.
C23_RecordsOpaque ==
  (MergeReturned /\ format = NDJSON) =>
    /\ merged.out = Concat([i \in 1..N |-> Contribution(i)])
    /\ \A i \in 1..N :
         LET o == Records(Contribution(i))
             r == Records(Payload(i))
         IN /\ Len(o) <= Len(r)
            /\ \A k \in 1..Len(o) : o[k] = r[k]

\* the input record without the one carriage return that may end it
WithoutLineEndCR(rec) ==
  IF rec # <<>> /\ rec[Len(rec)] = CR THEN SubSeq(rec, 1, Len(rec) - 1) ELSE rec

\* C23 amended: ... is the input record at its place, but for one carriage
\* return at the end of the record, which is not copied.
C23_RecordsOpaqueButLineEnd ==
  (MergeReturned /\ format = NDJSON) =>
    /\ merged.out = Concat([i \in 1..N |-> Contribution(i)])
    /\ \A i \in 1..N :
         LET o == Records(Contribution(i))
             r == Records(Payload(i))
         IN /\ Len(o) <= Len(r)
            /\ \A k \in 1..Len(o) : o[k] = WithoutLineEndCR(r[k])

\* a record of two carriage returns after a byte: one of them is copied
C23_Witness ==
  /\ MergeReturned /\ format = NDJSON /\ N = 1
  /\ Payload(1) = <<ByteA, CR, CR>>
  /\ merged.out = <<ByteA, CR, NL>>

\* mergeData(list, NDJSON) for a list of byte strings
MergedND(list) == mergeNDJSON([i \in 1..Len(list) |-> Bytes(list[i])])
PayloadList == [i \in 1..N |-> Payload(i)]

\* merging the first k payloads first, or the last ones from k on first,
\* gives what merging them all at once gives
Regrouped(list) ==
  \A k \in 1..Len(list) :
    /\ MergedND(<<MergedND(SubSeq(list, 1, k))>> \o SubSeq(list, k + 1, Len(list)))
         = MergedND(list)
    /\ MergedND(SubSeq(list, 1, k - 1) \o <<MergedND(SubSeq(list, k, Len(list)))>>)
         = MergedND(list)

\* C24 as stated: for all payloads, merging in groups gives the same as
\* merging at once, and merging a merged payload alone returns it unchanged.
C24_NDJSONAssociative ==
  (MergeReturned /\ format = NDJSON) =>
    /\ merged.out = MergedND(PayloadList)
    /\ Regrouped(PayloadList)
    /\ MergedND(<<merged.out>>) = merged.out

\* the record ends in two carriage returns or more
EndsInTwoCR(rec) == WithoutLineEndCR(WithoutLineEndCR(rec)) # WithoutLineEndCR(rec)

\* C24 amended: the same for payloads none of whose records ends in two or
\* more carriage returns.
C24_NDJSONAssociativeOneCR ==
  (MergeReturned /\ format = NDJSON
     /\ \A i \in 1..N : \A k \in DOMAIN Records(Payload(i)) :
          ~EndsInTwoCR(Records(Payload(i))[k])) =>
    /\ merged.out = MergedND(PayloadList)
    /\ Regrouped(PayloadList)
    /\ MergedND(<<merged.out>>) = merged.out

\* three payloads, the first without a newline at its end
C24_Witness ==
  /\ MergeReturned /\ format = NDJSON /\ N = 3
  /\ PayloadList = << <<ByteA>>, <<CR>>, <<ByteA>> >>
  /\ merged.out = <<ByteA, NL, NL, ByteA, NL>>

(***************************************************************************)
(* More properties of parseEndpointsFromFlags.                             *)
(***************************************************************************)
Succeeded == parsed.called /\ parsed.err = ""

\* C25: every endpoint of a list that parseEndpointsFromFlags returns
\* without error has a non-empty AccountID, ProjectID and URL.
C25_EndpointFields ==
  Succeeded =>
    \A k \in DOMAIN parsed.endpoints :
      /\ parsed.endpoints[k].AccountID # <<>>
      /\ parsed.endpoints[k].ProjectID # <<>>
      /\ parsed.endpoints[k].URL # <<>>

HasScheme(node) == node # <<>> /\ Head(node) \in {"http://", "https://"}

\* C26: a node value that carries a scheme (http:// or https://) is the URL
\* of its endpoints unchanged, a node value without one gets exactly one
\* http:// in front, and that for every tenant paired with the node.
C26_SchemeNormalisation ==
  Succeeded =>
    \A n \in 1..Len(Nodes) : \A t \in 1..Len(Tenants) :
      parsed.endpoints[(n - 1) * Len(Tenants) + t].URL =
        IF HasScheme(Nodes[n]) THEN Nodes[n] ELSE <<"http://">> \o Nodes[n]

\* C27: the endpoints come in the order of the loops, nodes outermost: with
\* T tenants, the endpoint at index n * T + t (counted from 0) has the
\* account and project of tenant t and the address of node n, both counted
\* in the order they are written in the specs.
C27_ResolverOrder ==
  Succeeded =>
    LET T == Len(Tenants)
    IN /\ DOMAIN parsed.endpoints = 1..(T * Len(Nodes))
       /\ \A n \in 0..(Len(Nodes) - 1) : \A t \in 0..(T - 1) :
            LET e == parsed.endpoints[n * T + t + 1]
                id == Split(TrimSpace(Tenants[t + 1]), ":")
            IN /\ <<e.AccountID, e.ProjectID>> = <<id[1], id[2]>>
               /\ \E k \in 1..(Len(e.URL) + 1) :
                    SubSeq(e.URL, k, Len(e.URL)) = Nodes[n + 1]

\* two tenants on two nodes: the second endpoint is the second tenant on
\* the first node
C27_Witness ==
  /\ Succeeded
  /\ idsFlag = <<"1", ":", "projA", ",", "2", ":", "projB">>
  /\ nodesFlag = <<"node1.com", ",", "node2.com">>
  /\ parsed.endpoints[2] = Endpoint(<<"2">>, <<"projB">>, <<"http://", "node1.com">>)
  /\ parsed.endpoints[3] = Endpoint(<<"1">>, <<"projA">>, <<"http://", "node2.com">>)

(***************************************************************************)
(* Properties of the inbound body.                                         *)
(***************************************************************************)
Started(g) == wpc[g] # "none"                   \* goroutine g was started

\* C28: getEndpointData has read the whole inbound body before it starts a
\* goroutine, and what it has read never changes afterwards (it is read
\* once); when the read fails no goroutine is started, no request is sent
\* to a shard, and the handler answers with an error status.
C28_BodyReadFirst ==
  /\ [](\A g \in DOMAIN wpc : Started(g) => ~body.nil /\ body.b = req.Body)
  /\ [](err = ReadBodyErr =>
          /\ body.nil
          /\ \A g \in DOMAIN wpc :
               ~Started(g) /\ calls[g] = 0 /\ wreq[g] = NoRequest
          /\ Finished => w.status = 400)
  /\ [][~body.nil => body' = body]_vars

\* the read has failed for a request with a body and two endpoints
C28_Witness ==
  /\ Finished /\ err = ReadBodyErr
  /\ req.Body = "test payload" /\ N = 2
  /\ calls = <<0, 0>>
  /\ w.status = 400

(***************************************************************************)
(* Properties of the route table.                                          *)
(***************************************************************************)
Serving == hpc # "main"                         \* a handler is running
SumPaths == {"/select/logsql/field_names", "/select/logsql/field_values"}

\* C29: every path of the table is registered once (no registration hits a
\* path that is already there, and in the end the registered paths are
\* those of the table), and the handler that serves a request for a path
\* forwards that path and merges with the format and strategy the table
\* has for it: NDJSON for /select/logsql/query only, Sum for field_names
\* and field_values only.
C29_RouteBinding ==
  /\ rnext # 0
  /\ \A i \in DOMAIN routes : \A j \in DOMAIN routes :
       routes[i].Path = routes[j].Path => i = j
  /\ DOMAIN mux = {routes[i].Path : i \in 1..(rnext - 1)}
  /\ Serving =>
       \E i \in DOMAIN routes :
         /\ routes[i].Path = req.Path
         /\ path = req.Path
         /\ format = routes[i].Format
         /\ mergeStrategy = routes[i].MergeStrategy
         /\ format = NDJSON <=> req.Path = "/select/logsql/query"
         /\ mergeStrategy = Sum <=> req.Path \in SumPaths
         /\ \A g \in 1..N : wreq[g] # NoRequest => wreq[g].URL[2] = req.Path
         /\ mergeCalls > 0 =>
              merged \in mergeData(data.list, routes[i].Format, routes[i].MergeStrategy)

\* a request for field_values was forwarded and its answers summed
C29_Witness ==
  /\ Finished
  /\ req.Path = "/select/logsql/field_values"
  /\ mergeStrategy = Sum
  /\ merged.ok
  /\ w.status = 200
  /\ wreq[2].URL = <<"http://node2", "/select/logsql/field_values", "?", "filter=ok">>

(***************************************************************************)
(* The outcome of a request as a function of the shards' answers.          *)
(***************************************************************************)
\* C30: for a given endpoint list and given answers of the shards, the
\* outcome of the request is the same whatever the order in which the
\* goroutines ran and finished: it is the error of the lowest failing
\* index, or else what mergeData makes of the answers in index order (the
\* one payload for NDJSON and structural merge, the one set of (value,
\* hits) pairs for the sum merge).
C30_InterleavingIndependence ==
  (Finished /\ Dispatched) =>
    LET answers == [i \in 1..N |-> CallResult(i)]
        failed == {i \in 1..N : answers[i].err # NilErr}
    IN IF failed # {}
         THEN LET i == CHOOSE k \in failed : \A l \in failed : k <= l
              IN /\ err = answers[i].err
                 /\ mergeCalls = 0
                 /\ w.body[1] = ErrorText(answers[i].err)
         ELSE LET outs == mergeData([i \in 1..N |-> answers[i].res], format, mergeStrategy)
              IN /\ err = NilErr
                 /\ merged \in outs
                 /\ (format = NDJSON \/ mergeStrategy = Merge \/ ~merged.ok) =>
                      outs = {merged}
                 /\ (format = JSON /\ mergeStrategy = Sum /\ merged.ok) =>
                      \A o \in outs : o.ok /\ Pairs(o.out) = Pairs(merged.out)

\* the second goroutine failed first, the first one later: the outcome is
\* the error of the first
C30_Witness ==
  /\ Finished /\ Dispatched /\ N = 2
  /\ format = JSON /\ mergeStrategy = Sum
  /\ doneOrder = <<2, 1>>
  /\ wresp[2] = TransportFailure
  /\ wresp[1] = Response(201, JInvalid, TRUE)
  /\ err = StatusErr(JInvalid)

(***************************************************************************)
(* The tenant of an outbound request.                                      *)
(***************************************************************************)
\* r1 and r2 differ at most in headers other than Content-Type
SameButHeaders(r1, r2) ==
  /\ r1.Method = r2.Method
  /\ r1.RawQuery = r2.RawQuery
  /\ r1.ContentType = r2.ContentType
  /\ r1.Body = r2.Body

\* C31: the AccountID and ProjectID of every outbound request are those of
\* the configured endpoint, and no other header of the client is passed on:
\* an inbound request that differs from this one only in its AccountID,
\* ProjectID or Authorization yields the same outbound request for each
\* endpoint.
C31_TenantScope ==
  \A i \in DOMAIN wreq : wreq[i] # NoRequest =>
    /\ wreq[i].AccountID = endpoints[i].AccountID
    /\ wreq[i].ProjectID = endpoints[i].ProjectID
    /\ wreq[i].Authorization = ""
    /\ \A r \in ClientRequests : SameButHeaders(r, req) =>
         NewRequest(endpoints[i], path, r, Bytes(r.Body).b) = wreq[i]

\* a client that names tenant 2 is sent to endpoint 1 as tenant 1
C31_Witness ==
  /\ req.AccountID = "2" /\ req.ProjectID = "p2"
  /\ endpoints[1].AccountID = "1"
  /\ wreq[1] # NoRequest
  /\ wreq[1].AccountID = "1" /\ wreq[1].ProjectID = "p1"
  /\ wresp[1] # NoAnswer

(***************************************************************************)
(* Two requests in flight: what belongs to which.                          *)
(***************************************************************************)
\* what a goroutine that got the answer a (or none: the request could not
\* be built) leaves in its slots
AnswerResult(a) ==
  IF a = NoAnswer THEN [err |-> NewRequestErr, res |-> NilSlice]
  ELSE IF a.kind = "transport" THEN [err |-> TransportErr, res |-> NilSlice]
  ELSE IF ~a.complete THEN [err |-> ReadErr, res |-> NilSlice]
  ELSE IF a.status = 200 THEN [err |-> NilErr, res |-> Bytes(a.body)]
  ELSE [err |-> StatusErr(a.body), res |-> NilSlice]

\* the body buffer of the call h holds the body of its own request, and
\* that is what its goroutines send
OwnBody(h) ==
  /\ ~h.body.nil => h.body = Bytes(h.req.Body)
  /\ \A i \in DOMAIN h.wreq :
       h.wreq[i] # NoRequest => h.wreq[i].Body = h.req.Body

\* slot i of the call h is written by its own goroutine i, with what that
\* goroutine got, and by nothing else
OwnSlots(h) ==
  ~h.body.nil =>
    /\ DOMAIN h.errs = 1..N /\ DOMAIN h.results = 1..N
    /\ \A i \in 1..N :
         IF h.wpc[i] = "done"
           THEN /\ h.errs[i] = AnswerResult(h.wresp[i]).err
                /\ h.results[i] = AnswerResult(h.wresp[i]).res
           ELSE h.errs[i] = NilErr /\ h.results[i] = NilSlice

\* what the call h answered follows from the answers to its own calls
OwnOutcome(h) ==
  (h.hpc = "done" /\ ~h.body.nil) =>
    LET answers == [i \in 1..N |-> AnswerResult(h.wresp[i])]
        failed == {i \in 1..N : answers[i].err # NilErr}
    IN IF failed # {}
         THEN LET i == CHOOSE k \in failed : \A l \in failed : k <= l
              IN /\ h.err = answers[i].err
                 /\ h.w.status = 400
                 /\ h.w.body = <<ErrorText(answers[i].err), Newline>>
         ELSE LET outs == mergeData([i \in 1..N |-> answers[i].res],
                                    h.format, h.mergeStrategy)
              IN /\ h.err = NilErr
                 /\ h.merged \in outs
                 /\ h.w.status = IF h.merged.ok THEN 200 ELSE 400
                 /\ h.merged.ok =>
                      h.w.body = <<[kind |-> "payload", out |-> h.merged.out]>>

Isolated(h) == OwnBody(h) /\ OwnSlots(h) /\ OwnOutcome(h)

\* C32: with two requests in flight, each call of the handler has its own
\* body buffer, result slots and error slots, its response follows from the
\* answers to its own outbound calls only, and no step writes the endpoint
\* list.
C32_Isolation ==
  /\ [](Isolated(Activation) /\ Isolated(peer))
  /\ [][endpoints' = endpoints]_vars

\* both requests are in flight: a goroutine of one has failed and recorded
\* its error while a goroutine of the other still waits for its answer
C32_Witness ==
  /\ peer # NoPeer
  /\ hpc = "wait" /\ wpc[1] = "sent" /\ errs[1] = NilErr
  /\ peer.hpc = "wait" /\ peer.wpc[1] = "done"
  /\ peer.wresp[1] = TransportFailure /\ peer.errs[1] = TransportErr
  /\ req.Body # peer.req.Body

=============================================================================
